---- MODULE Spec2Model ----
(***************************************************************************)
(* concurrently-ui: the LogViewer of src/index.ts as a state machine.      *)
(*                                                                         *)
(* One event loop handles one event at a time (CLI entry, pty data, pty    *)
(* exit, spinner tick, key press), so every handler is one atomic action.  *)
(* Task indices are the code's 0-based array indices.  The pty handles,    *)
(* the timers and the blessed widgets are the environment: a handle may    *)
(* deliver data chunks and one exit event, a timer may tick while it is    *)
(* not cleared, the operator may press up, down, enter or q.               *)
(***************************************************************************)
EXTENDS Integers, Sequences, FiniteSets, TLC

\* ---- bounds of the model ----
MaxData == 1         \* data chunks delivered in one run of Spec
MaxTicks == 1        \* spinner ticks in one run of Spec
LogData == 3         \* data chunks delivered in one run of SpecLog
LogTicks == 1        \* spinner ticks in one run of SpecLog
SpinData == 1        \* data chunks delivered in one run of SpecSpinner
SpinTicks == 11      \* spinner ticks in one run of SpecSpinner (one full cycle and more)

\* ---- program constants ----
NoExitCode == -1     \* exitCode?: number, undefined until the exit event

\* the exit codes a handle reports: success and failure
ExitCodes == {0, 1}

\* the command lines the tool is started with
CommandLines == {<<>>, <<"cmd0">>, <<"cmd0", "cmd1", "cmd2">>}

LogCommandLines == {<<>>, <<"cmd0", "cmd1">>}

SpinCommandLines == {<<>>, <<"cmd0", "cmd1">>}

VARIABLES
    commands,          \* parsed.args
    options,           \* LogViewerOptions: killOthers, killOthersOnFail
    phase,             \* "start", "running", "exited"
    exitStatus,        \* status the tool's own process ended with, NoExitCode while alive
    tasks,             \* this.tasks: index -> Task record
    currentTaskIndex,  \* this.currentTaskIndex
    selected,          \* this.sidebar.selected
    sidebarItems,      \* content of each sidebar item
    logBoxContent,     \* content last set on this.logBox
    spinnerIndex,      \* the per-task closure variable spinnerIndex
    spinnerIntervals,  \* this.spinnerIntervals, in push order
    timers,            \* indices whose interval timer is live (not cleared)
    kills,             \* index -> number of process.kill() calls on its handle
    firstExit,         \* history: index of the first task whose exit event was handled
    delivered,         \* history: index -> chunks its handle delivered, in order
    backlog,           \* history (kept in SpecLog): the first backlog of an unselected task
    quitCalls,         \* history: the calls cleanup() made, in order
    spawnFailed,       \* history: index whose pty.spawn threw, NoExitCode if none
    dataLeft,          \* chunks the handles may still deliver in this run
    ticksLeft,         \* ticks the timers may still fire in this run
    stderr             \* the lines console.error wrote

vars == <<commands, options, phase, exitStatus, tasks, currentTaskIndex, selected,
          sidebarItems, logBoxContent, spinnerIndex, spinnerIntervals, timers, kills,
          firstExit, delivered, backlog, quitCalls, spawnFailed, dataLeft, ticksLeft,
          stderr>>

\* ---- helpers ----
Empty == [i \in {} |-> 0]

N == Len(commands)

Indices == DOMAIN tasks

IndexSeq(n) == [i \in 1..n |-> i - 1]

\* the text of the next chunk a handle delivers: every chunk of a run is distinct
Chunks == {"out" \o ToString(dataLeft)}

\* backlog.state: "off" (not recorded), "none", "pending" (task index has log entries
\* that arrived while it was not selected), "revealed" (and was then switched to)
Backlog(state) == [state |-> state, index |-> NoExitCode]

\* a log entry arrived for task index while another task was selected
arrivedUnselected(index) ==
    IF backlog.state = "none" THEN [state |-> "pending", index |-> index] ELSE backlog

\* Array.prototype.join
RECURSIVE join(_, _)
join(seq, sep) ==
    IF Len(seq) = 0 THEN ""
    ELSE IF Len(seq) = 1 THEN seq[1]
    ELSE seq[1] \o sep \o join(Tail(seq), sep)

\* picocolors: the text between the colour's open and close escape codes
yellow(s) == "[33m" \o s \o "[39m"

green(s) == "[32m" \o s \o "[39m"

\* the ten braille glyphs of the spinner, by position
spinnerFrames == <<"F0", "F1", "F2", "F3", "F4", "F5", "F6", "F7", "F8", "F9">>

getTaskLabel(task) ==
    IF task.isRunning THEN "<running> " \o task.title
    ELSE IF task.exitCode = 0 THEN green("<check>") \o " " \o task.title
    ELSE "<cross> " \o task.title

exitMarkerStale(exitCode) == "\n" \o yellow("Process exited with code undefined")

exitMarker(exitCode) == "\n" \o yellow("Process exited with code " \o ToString(exitCode))

\* task.logs.push(x)
pushFront(logs, x) == <<x>> \o logs

push(logs, x) == Append(logs, x)

\* updateLogBox: the content set on the log box
updateLogBoxStale(ts, index) == logBoxContent

updateLogBoxFirst(ts, index) == join(ts[0].logs, "\n")

updateLogBox(ts, index) == join(ts[index].logs, "\n")

\* the condition of the kill policy in onExit
killPolicyAnyCode(opts, exitCode) == opts.killOthers \/ opts.killOthersOnFail

killPolicySwapped(opts, exitCode) ==
    \/ opts.killOthers /\ exitCode # 0
    \/ opts.killOthersOnFail /\ exitCode = 0

killPolicy(opts, exitCode) ==
    \/ opts.killOthers /\ exitCode = 0
    \/ opts.killOthersOnFail /\ exitCode # 0

\* killAllTasks: the indices whose handle gets a kill() call, in forEach order
killAllTasksUnguarded(ts) ==
    SelectSeq(IndexSeq(Cardinality(DOMAIN ts)), LAMBDA i : ts[i].process)

killAllTasksFirstOnly(ts) ==
    LET all == SelectSeq(IndexSeq(Cardinality(DOMAIN ts)),
                         LAMBDA i : ts[i].isRunning /\ ts[i].process)
    IN  IF all = <<>> THEN <<>> ELSE <<Head(all)>>

killAllTasks(ts) ==
    SelectSeq(IndexSeq(Cardinality(DOMAIN ts)), LAMBDA i : ts[i].isRunning /\ ts[i].process)

Range(seq) == {seq[i] : i \in 1..Len(seq)}

\* the kill counters after kill() was called on each index of targets
signalled(k, targets) == [i \in DOMAIN k |-> IF i \in Range(targets) THEN k[i] + 1 ELSE k[i]]

\* spinnerIndex = (spinnerIndex + 1) % spinnerFrames.length
nextSpinnerIndexSkip(i) == (i + 2) % Len(spinnerFrames)

nextSpinnerIndex(i) == (i + 1) % Len(spinnerFrames)

\* blessed list.up(1) / list.down(1): move the selection, kept inside the list
listUp(sel) == IF sel - 1 < 0 THEN 0 ELSE sel - 1

listDown(sel, n) == IF sel + 1 >= n THEN n - 1 ELSE sel + 1

\* cleanup(): clearInterval on every interval, then killAllTasks
cleanupKillFirst(ts, intervals) ==
    [i \in 1..Len(killAllTasks(ts)) |-> <<"kill", killAllTasks(ts)[i]>>]
    \o [i \in 1..Len(intervals) |-> <<"clearInterval", intervals[i]>>]

cleanup(ts, intervals) ==
    [i \in 1..Len(intervals) |-> <<"clearInterval", intervals[i]>>]
    \o [i \in 1..Len(killAllTasks(ts)) |-> <<"kill", killAllTasks(ts)[i]>>]

CallsOf(calls, kind) == SelectSeq(calls, LAMBDA c : c[1] = kind)

Targets(calls, kind) == [i \in 1..Len(CallsOf(calls, kind)) |-> CallsOf(calls, kind)[i][2]]

\* ---- initial states: the tool's process has started, before the CLI entry code ----
InitWith(lines, data, ticks, history) ==
    /\ commands \in lines
    /\ options \in [killOthers : BOOLEAN, killOthersOnFail : BOOLEAN]
    /\ phase = "start"
    /\ exitStatus = NoExitCode
    /\ tasks = Empty
    /\ currentTaskIndex = 0
    /\ selected = 0
    /\ sidebarItems = Empty
    /\ logBoxContent = ""
    /\ spinnerIndex = Empty
    /\ spinnerIntervals = <<>>
    /\ timers = {}
    /\ kills = Empty
    /\ firstExit = NoExitCode
    /\ delivered = Empty
    /\ backlog = Backlog(history)
    /\ quitCalls = <<>>
    /\ spawnFailed = NoExitCode
    /\ dataLeft = data
    /\ ticksLeft = ticks
    /\ stderr = <<>>

Init == InitWith(CommandLines, MaxData, MaxTicks, "off")

InitLog == InitWith(LogCommandLines, LogData, LogTicks, "none")

InitSpinner == InitWith(SpinCommandLines, SpinData, SpinTicks, "off")

\* ---- CLI entry ----
\* no command: console.error, process.exit(1)
UsageErrorExitZero ==
    /\ phase = "start"
    /\ N = 0
    /\ phase' = "exited"
    /\ exitStatus' = 0
    /\ stderr' = Append(stderr, "Error: At least one command is required")
    /\ UNCHANGED <<commands, options, tasks, currentTaskIndex, selected, sidebarItems,
                   logBoxContent, spinnerIndex, spinnerIntervals, timers, kills, firstExit,
                   delivered, backlog, quitCalls, spawnFailed, dataLeft, ticksLeft>>

UsageError ==
    /\ phase = "start"
    /\ N = 0
    /\ phase' = "exited"
    /\ exitStatus' = 1
    /\ stderr' = Append(stderr, "Error: At least one command is required")
    /\ UNCHANGED <<commands, options, tasks, currentTaskIndex, selected, sidebarItems,
                   logBoxContent, spinnerIndex, spinnerIntervals, timers, kills, firstExit,
                   delivered, backlog, quitCalls, spawnFailed, dataLeft, ticksLeft>>

\* the Task records of the constructor; startTasks gave a handle to those before fail
constructedReversed(cmds, fail) ==
    [index \in 0..(Len(cmds) - 1) |->
        [title |-> cmds[Len(cmds) - index], command |-> cmds[Len(cmds) - index],
         isRunning |-> TRUE, logs |-> <<>>, process |-> index < fail,
         exitCode |-> NoExitCode]]

constructed(cmds, fail) ==
    [index \in 0..(Len(cmds) - 1) |->
        [title |-> cmds[index + 1], command |-> cmds[index + 1], isRunning |-> TRUE,
         logs |-> <<>>, process |-> index < fail, exitCode |-> NoExitCode]]

\* new LogViewer(...): constructor, initializeUI, startTasks.  pty.spawn of task
\* fail throws (fail = N: no spawn throws); nothing catches it, so the exception
\* leaves startTasks and the constructor and ends the process.
NewLogViewer(fail) ==
    /\ phase = "start"
    /\ N > 0
    /\ tasks' = constructed(commands, fail)
    /\ sidebarItems' = [index \in 0..(N - 1) |-> getTaskLabel(constructed(commands, 0)[index])]
    /\ logBoxContent' = updateLogBox(constructed(commands, 0), currentTaskIndex)
    /\ spinnerIndex' = [index \in 0..(N - 1) |-> 0]
    /\ spinnerIntervals' = IndexSeq(fail)
    /\ kills' = [index \in 0..(N - 1) |-> 0]
    /\ delivered' = [index \in 0..(N - 1) |-> <<>>]
    /\ IF fail = N
       THEN /\ phase' = "running"
            /\ timers' = 0..(N - 1)
            /\ UNCHANGED <<exitStatus, spawnFailed>>
       ELSE /\ phase' = "exited"
            /\ timers' = {}
            /\ exitStatus' = 1
            /\ spawnFailed' = fail
    /\ UNCHANGED <<stderr, commands, options, currentTaskIndex, selected, firstExit, backlog,
                   quitCalls, dataLeft, ticksLeft>>

\* ---- mutated handlers (used to test the claims' formulas) ----
OnDataRevives(index, data) ==
    /\ phase = "running"
    /\ tasks[index].process
    /\ dataLeft > 0
    /\ dataLeft' = dataLeft - 1
    /\ tasks' = [tasks EXCEPT ![index].logs = push(@, data), ![index].isRunning = TRUE]
    /\ delivered' = [delivered EXCEPT ![index] = Append(@, data)]
    /\ IF currentTaskIndex = index
       THEN /\ logBoxContent' = updateLogBox(tasks', currentTaskIndex)
            /\ UNCHANGED backlog
       ELSE /\ backlog' = arrivedUnselected(index)
            /\ UNCHANGED logBoxContent
    /\ UNCHANGED <<stderr, commands, options, phase, exitStatus, currentTaskIndex, selected,
                   sidebarItems, spinnerIndex, spinnerIntervals, timers, kills, firstExit,
                   quitCalls, spawnFailed, ticksLeft>>

OnDataToSelected(index, data) ==
    /\ phase = "running"
    /\ tasks[index].process
    /\ dataLeft > 0
    /\ dataLeft' = dataLeft - 1
    /\ tasks' = [tasks EXCEPT ![currentTaskIndex].logs = push(@, data)]
    /\ delivered' = [delivered EXCEPT ![index] = Append(@, data)]
    /\ logBoxContent' = updateLogBox(tasks', currentTaskIndex)
    /\ UNCHANGED <<stderr, commands, options, phase, exitStatus, currentTaskIndex, selected,
                   sidebarItems, spinnerIndex, spinnerIntervals, timers, kills, firstExit,
                   backlog, quitCalls, spawnFailed, ticksLeft>>

TickSharedIndex(index) ==
    /\ phase = "running"
    /\ index \in timers
    /\ ticksLeft > 0
    /\ ticksLeft' = ticksLeft - 1
    /\ IF tasks[index].isRunning
       THEN /\ sidebarItems' = [sidebarItems EXCEPT ![index] =
                    spinnerFrames[spinnerIndex[index] + 1] \o " " \o tasks[index].title]
            /\ spinnerIndex' = [i \in DOMAIN spinnerIndex |-> nextSpinnerIndex(spinnerIndex[i])]
       ELSE UNCHANGED <<sidebarItems, spinnerIndex>>
    /\ UNCHANGED <<stderr, commands, options, phase, exitStatus, tasks, currentTaskIndex, selected,
                   logBoxContent, spinnerIntervals, timers, kills, firstExit, delivered,
                   backlog, quitCalls, spawnFailed, dataLeft>>

TickUnguarded(index) ==
    /\ phase = "running"
    /\ index \in timers
    /\ ticksLeft > 0
    /\ ticksLeft' = ticksLeft - 1
    /\ sidebarItems' = [sidebarItems EXCEPT ![index] =
            spinnerFrames[spinnerIndex[index] + 1] \o " " \o tasks[index].title]
    /\ spinnerIndex' = [spinnerIndex EXCEPT ![index] = nextSpinnerIndex(@)]
    /\ UNCHANGED <<stderr, commands, options, phase, exitStatus, tasks, currentTaskIndex, selected,
                   logBoxContent, spinnerIntervals, timers, kills, firstExit, delivered,
                   backlog, quitCalls, spawnFailed, dataLeft>>

handleTaskSelectOffByOne(index) ==
    /\ currentTaskIndex' = index + 1
    /\ logBoxContent' = updateLogBox(tasks, index)
    /\ UNCHANGED backlog

\* ---- pty events ----
\* p.onData
OnData(index, data) ==
    /\ phase = "running"
    /\ tasks[index].process
    /\ dataLeft > 0
    /\ dataLeft' = dataLeft - 1
    /\ tasks' = [tasks EXCEPT ![index].logs = push(@, data)]
    /\ delivered' = [delivered EXCEPT ![index] = Append(@, data)]
    /\ IF currentTaskIndex = index
       THEN /\ logBoxContent' = updateLogBox(tasks', currentTaskIndex)
            /\ UNCHANGED backlog
       ELSE /\ backlog' = arrivedUnselected(index)
            /\ UNCHANGED logBoxContent
    /\ UNCHANGED <<stderr, commands, options, phase, exitStatus, currentTaskIndex, selected,
                   sidebarItems, spinnerIndex, spinnerIntervals, timers, kills, firstExit,
                   quitCalls, spawnFailed, ticksLeft>>

\* p.onExit: a handle emits its exit event once
OnExit(index, exitCode) ==
    /\ phase = "running"
    /\ tasks[index].process
    /\ tasks[index].isRunning
    /\ tasks' = [tasks EXCEPT ![index].isRunning = FALSE,
                              ![index].exitCode = exitCode,
                              ![index].logs = push(@, exitMarker(exitCode))]
    /\ IF currentTaskIndex = index
       THEN /\ logBoxContent' = updateLogBox(tasks', currentTaskIndex)
            /\ UNCHANGED backlog
       ELSE /\ backlog' = arrivedUnselected(index)
            /\ UNCHANGED logBoxContent
    /\ sidebarItems' = [sidebarItems EXCEPT ![index] = getTaskLabel(tasks'[index])]
    /\ kills' = IF killPolicy(options, exitCode)
                THEN signalled(kills, killAllTasks(tasks'))
                ELSE kills
    /\ firstExit' = IF firstExit = NoExitCode THEN index ELSE firstExit
    /\ UNCHANGED <<stderr, commands, options, phase, exitStatus, currentTaskIndex, selected,
                   spinnerIndex, spinnerIntervals, timers, delivered, quitCalls,
                   spawnFailed, dataLeft, ticksLeft>>

\* ---- spinner ----
\* the setInterval callback of task index
Tick(index) ==
    /\ phase = "running"
    /\ index \in timers
    /\ ticksLeft > 0
    /\ ticksLeft' = ticksLeft - 1
    /\ IF tasks[index].isRunning
       THEN /\ sidebarItems' = [sidebarItems EXCEPT ![index] =
                    spinnerFrames[spinnerIndex[index] + 1] \o " " \o tasks[index].title]
            /\ spinnerIndex' = [spinnerIndex EXCEPT ![index] = nextSpinnerIndex(@)]
       ELSE UNCHANGED <<sidebarItems, spinnerIndex>>
    /\ UNCHANGED <<stderr, commands, options, phase, exitStatus, tasks, currentTaskIndex, selected,
                   logBoxContent, spinnerIntervals, timers, kills, firstExit, delivered,
                   backlog, quitCalls, spawnFailed, dataLeft>>

\* ---- keys ----
\* handleTaskSelect(item, index)
handleTaskSelect(index) ==
    /\ currentTaskIndex' = index
    /\ logBoxContent' = updateLogBox(tasks, index)
    /\ backlog' = IF index # currentTaskIndex /\ backlog = [state |-> "pending", index |-> index]
                  THEN [backlog EXCEPT !.state = "revealed"]
                  ELSE backlog

\* the sidebar's select event (enter or click on item index)
Select(index) ==
    /\ phase = "running"
    /\ selected' = index
    /\ handleTaskSelect(index)
    /\ UNCHANGED <<stderr, commands, options, phase, exitStatus, tasks, sidebarItems, spinnerIndex,
                   spinnerIntervals, timers, kills, firstExit, delivered, quitCalls,
                   spawnFailed, dataLeft, ticksLeft>>

KeyUp ==
    /\ phase = "running"
    /\ selected' = listUp(selected)
    /\ handleTaskSelect(selected')
    /\ UNCHANGED <<stderr, commands, options, phase, exitStatus, tasks, sidebarItems, spinnerIndex,
                   spinnerIntervals, timers, kills, firstExit, delivered, quitCalls,
                   spawnFailed, dataLeft, ticksLeft>>

KeyDown ==
    /\ phase = "running"
    /\ selected' = listDown(selected, N)
    /\ handleTaskSelect(selected')
    /\ UNCHANGED <<stderr, commands, options, phase, exitStatus, tasks, sidebarItems, spinnerIndex,
                   spinnerIntervals, timers, kills, firstExit, delivered, quitCalls,
                   spawnFailed, dataLeft, ticksLeft>>

\* q or C-c: cleanup(), process.exit(0)
Quit ==
    /\ phase = "running"
    /\ quitCalls' = cleanup(tasks, spinnerIntervals) \o <<<<"exit", 0>>>>
    /\ timers' = timers \ Range(Targets(quitCalls', "clearInterval"))
    /\ kills' = signalled(kills, Targets(quitCalls', "kill"))
    /\ phase' = "exited"
    /\ exitStatus' = 0
    /\ UNCHANGED <<stderr, commands, options, tasks, currentTaskIndex, selected, sidebarItems,
                   logBoxContent, spinnerIndex, spinnerIntervals, firstExit, delivered,
                   backlog, spawnFailed, dataLeft, ticksLeft>>

Next ==
    \/ UsageError
    \/ \E fail \in 0..N : NewLogViewer(fail)
    \/ \E index \in Indices, data \in Chunks : OnData(index, data)
    \/ \E index \in Indices, exitCode \in ExitCodes : OnExit(index, exitCode)
    \/ \E index \in Indices : Tick(index)
    \/ \E index \in Indices : Select(index)
    \/ KeyUp
    \/ KeyDown
    \/ Quit

Spec == Init /\ [][Next]_vars

SpecLog == InitLog /\ [][Next]_vars

SpecSpinner == InitSpinner /\ [][Next]_vars

\* ---- liveness: a process that was sent a kill ends, and its exit event is handled ----
KilledExit ==
    \E index \in Indices :
        /\ kills[index] > 0
        /\ \E exitCode \in ExitCodes : OnExit(index, exitCode)

SpecLive == Init /\ [][Next]_vars /\ WF_vars(KilledExit)

\* ======================= the claims =======================

Running(index) == tasks[index].isRunning

Exited(index) == ~tasks[index].isRunning

ExitedWith(index, exitCode) == Exited(index) /\ tasks[index].exitCode = exitCode

\* the step handles the exit event of task index
ExitEvent(index) == tasks[index].isRunning /\ ~tasks'[index].isRunning

\* C1: with killOthers and 3 tasks, once the first task to exit has exited with code
\* 0, each of the two other tasks has received exactly one kill signal, and the exit
\* events of those two add no further kill signal (until quit).
C1_OneKillEach ==
    (/\ phase = "running"
     /\ options.killOthers
     /\ N = 3
     /\ firstExit # NoExitCode
     /\ tasks[firstExit].exitCode = 0)
    => \A index \in Indices \ {firstExit} : kills[index] = 1

\* C2: the exit event of a task with code c issues one kill to every other task that
\* is still Running if (killOthers and c = 0) or (killOthersOnFail and c # 0), and
\* issues no kill to any task otherwise.
C2_KillPolicy ==
    [][\A index \in Indices :
          ExitEvent(index) =>
              \A other \in Indices :
                  kills'[other] - kills[other] =
                      IF /\ \/ options.killOthers /\ tasks'[index].exitCode = 0
                            \/ options.killOthersOnFail /\ tasks'[index].exitCode # 0
                         /\ other # index
                         /\ tasks[other].isRunning
                      THEN 1 ELSE 0]_vars

\* C2 witness: killOthersOnFail, 3 tasks, one exited nonzero and the other two, still
\* Running, were each killed by that exit event.
C2_Witness ==
    /\ phase = "running"
    /\ options.killOthersOnFail /\ ~options.killOthers
    /\ N = 3
    /\ firstExit # NoExitCode
    /\ ExitedWith(firstExit, 1) /\ kills[firstExit] = 0
    /\ \A other \in Indices \ {firstExit} : Running(other) /\ kills[other] = 1

\* C3: with killOthersOnFail and without killOthers, as long as every exit so far had
\* code 0 and quit has not happened, no kill signal has been issued to any task.
C3_NoKillOnSuccess ==
    (/\ options.killOthersOnFail /\ ~options.killOthers
     /\ quitCalls = <<>>
     /\ \A index \in Indices : Exited(index) => tasks[index].exitCode = 0)
    => \A index \in Indices : kills[index] = 0

\* C3 witness: killOthersOnFail only, all 3 tasks exited with code 0, no kill issued.
C3_Witness ==
    /\ phase = "running"
    /\ options.killOthersOnFail /\ ~options.killOthers
    /\ N = 3
    /\ \A index \in Indices : ExitedWith(index, 0) /\ kills[index] = 0

\* C4: every kill call (kill policy or quit) targets a task that is Running when the
\* call is made, and the task whose exit event triggered the policy gets no kill.
C4_KillOnlyRunning ==
    [][\A index \in Indices :
          /\ kills'[index] > kills[index] => tasks[index].isRunning /\ tasks'[index].isRunning
          /\ ExitEvent(index) => kills'[index] = kills[index]]_vars

\* C4 witness: a task exited without ever being killed while another, still Running,
\* was killed by two exit events.
C4_Witness ==
    /\ phase = "running"
    /\ \E index \in Indices : Exited(index) /\ kills[index] = 0
    /\ \E index \in Indices : Running(index) /\ kills[index] = 2
    /\ \E index \in Indices : Exited(index) /\ kills[index] = 1

Markers == {exitMarker(exitCode) : exitCode \in ExitCodes}

DataOf(logs) == SelectSeq(logs, LAMBDA entry : entry \notin Markers)

\* C5: the data chunks in a task's log are exactly the chunks its handle delivered, in
\* the order of delivery, each once.
C5_ChunksInOrder ==
    \A index \in Indices : DataOf(tasks[index].logs) = delivered[index]

\* C5 witness: one handle delivered two chunks, with a chunk and the exit of the other
\* task interleaved.
C5_Witness ==
    /\ phase = "running"
    /\ \E index \in Indices :
          /\ Len(delivered[index]) >= 2
          /\ \E other \in Indices \ {index} : Len(delivered[other]) >= 1 /\ Exited(other)

\* C6: once a task is Exited, its log never changes again (a chunk its handle delivers
\* after the exit event leaves the log as it was).
C6_LogFrozenAfterExit ==
    [][\A index \in Indices :
          ~tasks[index].isRunning => tasks'[index].logs = tasks[index].logs]_vars

\* the concatenation of the entries of a log
concat(logs) == join(logs, "")

C8_SpinnerAdvance ==
    [][ticksLeft' < ticksLeft =>
          /\ \/ \E index \in Indices :
                   /\ tasks[index].isRunning
                   /\ spinnerIndex' =
                          [spinnerIndex EXCEPT ![index] = (spinnerIndex[index] + 1) % 10]
                   /\ sidebarItems'[index] # sidebarItems[index]
             \/ /\ \E index \in Indices : ~tasks[index].isRunning
                /\ spinnerIndex' = spinnerIndex
                /\ sidebarItems' = sidebarItems
          /\ \A index \in Indices :
                ~tasks[index].isRunning =>
                    /\ spinnerIndex'[index] = spinnerIndex[index]
                    /\ sidebarItems'[index] = sidebarItems[index]]_vars

\* C8 witness: task 0 ticked ten times while Running and is back at frame index 0,
\* showing the last frame; task 1 exited and its one tick left its index at 0.
C8_Witness ==
    /\ phase = "running"
    /\ N = 2
    /\ Running(0) /\ spinnerIndex[0] = 0 /\ sidebarItems[0] = "F9 cmd0"
    /\ Exited(1) /\ spinnerIndex[1] = 0
    /\ ticksLeft = 0

\* C9: quit first cancels every spinner timer, then sends one kill to every task
\* Running at that moment and to no other, then ends the process; no timer is live
\* afterwards and no tick fires.
C9_QuitCleanup ==
    [][/\ quitCalls' # quitCalls =>
            /\ \A i, j \in 1..Len(quitCalls') :
                   quitCalls'[i][1] = "clearInterval" /\ quitCalls'[j][1] = "kill" => i < j
            /\ Range(Targets(quitCalls', "clearInterval")) = Indices
            /\ Range(Targets(quitCalls', "kill")) = {index \in Indices : tasks[index].isRunning}
            /\ quitCalls'[Len(quitCalls')] = <<"exit", 0>>
            /\ \A index \in Indices :
                   kills'[index] = kills[index] + (IF tasks[index].isRunning THEN 1 ELSE 0)
            /\ timers' = {}
            /\ phase' = "exited"
       /\ quitCalls # <<>> => UNCHANGED <<spinnerIndex, sidebarItems, ticksLeft>>]_vars

\* C9 witness: quit with 3 tasks, one Exited and two Running, after a tick had fired:
\* the two Running tasks were killed after the three timers were cancelled.
C9_Witness ==
    /\ quitCalls # <<>>
    /\ N = 3
    /\ ticksLeft = 0
    /\ Cardinality({index \in Indices : Running(index)}) = 2
    /\ Len(CallsOf(quitCalls, "kill")) = 2
    /\ Len(CallsOf(quitCalls, "clearInterval")) = 3
    /\ timers = {}

\* C10: when the command of a task cannot be spawned, the run goes on: that task is
\* Exited with exactly one line in its log and every other task has its process.
C10_SpawnFailureContained ==
    spawnFailed # NoExitCode =>
        /\ phase = "running"
        /\ Exited(spawnFailed)
        /\ Len(tasks[spawnFailed].logs) = 1
        /\ \A other \in Indices \ {spawnFailed} : tasks[other].process /\ Running(other)

\* C11: the step that starts the viewer with N >= 1 commands leaves exactly N tasks,
\* in command order, every one Running with an empty log; afterwards the number of
\* tasks never changes.
C11_RegistryAfterStart ==
    [][/\ (phase = "start" /\ phase' # "start" /\ N >= 1) =>
            /\ DOMAIN tasks' = 0..(N - 1)
            /\ \A index \in 0..(N - 1) :
                   /\ tasks'[index].command = commands[index + 1]
                   /\ tasks'[index].isRunning
                   /\ tasks'[index].logs = <<>>
       /\ phase # "start" => DOMAIN tasks' = DOMAIN tasks]_vars

\* C11 witness: 3 commands, the viewer has just started: 3 tasks, all Running, all
\* logs empty, no event handled yet.
C11_Witness ==
    /\ phase = "running"
    /\ N = 3
    /\ Cardinality(DOMAIN tasks) = 3
    /\ \A index \in Indices : Running(index) /\ tasks[index].logs = <<>>
    /\ dataLeft = MaxData /\ ticksLeft = MaxTicks
    /\ tasks[2].command = "cmd2"

\* C12: with zero commands the tool, once past its entry code, has reported an error
\* and ended with a non-zero status, with no task, no sidebar item, no timer and no
\* process ever created.
C12_NoCommands ==
    (N = 0 /\ phase # "start") =>
        /\ phase = "exited"
        /\ exitStatus # 0 /\ exitStatus # NoExitCode
        /\ Len(stderr) = 1
        /\ tasks = Empty
        /\ sidebarItems = Empty
        /\ spinnerIntervals = <<>> /\ timers = {}
        /\ kills = Empty

\* C12 witness: the tool was started without a command and has ended with status 1.
C12_Witness ==
    /\ N = 0
    /\ phase = "exited"
    /\ exitStatus = 1
    /\ stderr # <<>>

\* C13: a task that is Exited stays Exited and keeps its exit code, whatever event is
\* handled next.
C13_ExitIsTerminal ==
    [][\A index \in Indices :
          ~tasks[index].isRunning =>
              /\ ~tasks'[index].isRunning
              /\ tasks'[index].exitCode = tasks[index].exitCode]_vars

\* C13 witness: the first task to exit exited with code 1; after that its handle
\* delivered a chunk, another task exited, a tick fired and the selection moved.
C13_Witness ==
    /\ phase = "running"
    /\ firstExit # NoExitCode
    /\ ExitedWith(firstExit, 1)
    /\ Len(tasks[firstExit].logs) = 2 /\ tasks[firstExit].logs[1] \in Markers
    /\ \E other \in Indices \ {firstExit} : Exited(other)
    /\ ticksLeft = 0
    /\ currentTaskIndex # 0

\* the marker line of an exit with the given code, as the log pane shows it
MarkerLine(exitCode) == "\n[33mProcess exited with code " \o ToString(exitCode) \o "[39m"

MarkerLines == {MarkerLine(exitCode) : exitCode \in ExitCodes}

MarkersIn(logs) == SelectSeq(logs, LAMBDA entry : entry \in MarkerLines)

\* C14: the log of a Running task holds no marker line; the log of an Exited task
\* holds exactly one, with the task's stored exit code; the marker is appended by the
\* step that handles the task's exit event.
C14_OneMarker ==
    /\ [](\A index \in Indices :
             MarkersIn(tasks[index].logs) =
                 IF tasks[index].isRunning THEN <<>>
                 ELSE <<MarkerLine(tasks[index].exitCode)>>)
    /\ [][\A index \in Indices :
             ExitEvent(index) =>
                 tasks'[index].logs =
                     Append(tasks[index].logs, MarkerLine(tasks'[index].exitCode))]_vars

\* C14 witness: a task exited with code 1 between two of its chunks, the other task
\* is Running with a chunk in its log.
C14_Witness ==
    /\ phase = "running"
    /\ \E index \in Indices :
          /\ ExitedWith(index, 1)
          /\ Len(tasks[index].logs) = 3
          /\ tasks[index].logs[2] = MarkerLine(1)
          /\ \E other \in Indices \ {index} : Running(other) /\ Len(tasks[other].logs) = 1

\* C15: once the viewer is constructed the selection index is an index of a task.
C15_SelectionInRange ==
    (N >= 1 /\ phase # "start") =>
        /\ currentTaskIndex \in 0..(N - 1)
        /\ currentTaskIndex \in DOMAIN tasks

\* C15 witness: the last of 3 tasks is selected.
C15_Witness ==
    /\ phase = "running"
    /\ N = 3
    /\ currentTaskIndex = 2
    /\ selected = 2

\* C16: the sidebar item of an Exited task shows the success check if its exit code
\* is 0 and the failure cross otherwise, selected or not, in every later state.
C16_ExitGlyph ==
    \A index \in Indices :
        ~tasks[index].isRunning =>
            sidebarItems[index] =
                IF tasks[index].exitCode = 0
                THEN "[32m<check>[39m " \o tasks[index].title
                ELSE "<cross> " \o tasks[index].title

\* C16 witness: an unselected task exited with code 0, a selected one with code 1, and
\* the tick of the run fired after the first exit.
C16_Witness ==
    /\ phase = "running"
    /\ ticksLeft = 0
    /\ spinnerIndex = [index \in Indices |-> 0]
    /\ \E index \in Indices :
          index # currentTaskIndex /\ ExitedWith(index, 0)
          /\ sidebarItems[index] = "[32m<check>[39m " \o tasks[index].title
    /\ ExitedWith(currentTaskIndex, 1)
    /\ sidebarItems[currentTaskIndex] = "<cross> " \o tasks[currentTaskIndex].title

\* the kill policy was triggered by the exit of some task
Triggered ==
    /\ phase = "running"
    /\ \E index \in Indices :
          /\ Exited(index)
          /\ \/ options.killOthers /\ tasks[index].exitCode = 0
             \/ options.killOthersOnFail /\ tasks[index].exitCode # 0

\* C17: when every killed process delivers its exit event, a triggered kill policy
\* leads to every task being Exited (unless the operator quits first), and the kill
\* calls stay bounded: each call on a task stems from the exit event of another task.
C17_KillConverges ==
    /\ Triggered ~> (phase = "exited" \/ \A index \in Indices : Exited(index))
    /\ [](quitCalls = <<>> =>
             \A index \in Indices :
                 kills[index] <= Cardinality({other \in Indices \ {index} : Exited(other)}))

\* C17 witness: killOthers, 3 tasks, all Exited after the first exited with code 0;
\* the last one to exit had been killed twice.
C17_Witness ==
    /\ phase = "running"
    /\ options.killOthers
    /\ N = 3
    /\ \A index \in Indices : Exited(index)
    /\ firstExit # NoExitCode /\ ExitedWith(firstExit, 0) /\ kills[firstExit] = 0
    /\ \E index \in Indices : kills[index] = 2

DataEvent(index) == delivered'[index] # delivered[index]

\* C19: a data chunk or an exit event of task i leaves the log, state and exit code of
\* every other task and the selection index as they were, also when the exit's kill
\* policy signals the other tasks; of task i itself it changes nothing but the log,
\* the state and the exit code.
C19_EventTouchesOwnTask ==
    [][\A index \in Indices :
          (DataEvent(index) \/ ExitEvent(index)) =>
              /\ \A other \in Indices \ {index} :
                    /\ tasks'[other].logs = tasks[other].logs
                    /\ tasks'[other].isRunning = tasks[other].isRunning
                    /\ tasks'[other].exitCode = tasks[other].exitCode
              /\ currentTaskIndex' = currentTaskIndex
              /\ selected' = selected
              /\ tasks'[index].title = tasks[index].title
              /\ tasks'[index].command = tasks[index].command
              /\ tasks'[index].process = tasks[index].process]_vars

\* C19 witness: task 0 delivered a chunk and exited, its exit signalled task 1; tasks 1
\* and 2 are still Running with empty logs and the selection is still on task 2.
C19_Witness ==
    /\ phase = "running"
    /\ N = 3
    /\ Exited(0)
    /\ Len(delivered[0]) = 1
    /\ Running(1) /\ Running(2)
    /\ kills[1] >= 1
    /\ tasks[1].logs = <<>> /\ tasks[2].logs = <<>>
    /\ currentTaskIndex = 2

\* C20: a spinner tick changes the frame index and the status glyph of at most one
\* task, the one whose timer fired; it leaves every task's log, state and exit code,
\* the selection index and the log pane content unchanged.
C20_TickTouchesOwnSpinner ==
    [][ticksLeft' < ticksLeft =>
          /\ \A index \in Indices :
                /\ tasks'[index].logs = tasks[index].logs
                /\ tasks'[index].isRunning = tasks[index].isRunning
                /\ tasks'[index].exitCode = tasks[index].exitCode
          /\ currentTaskIndex' = currentTaskIndex
          /\ selected' = selected
          /\ logBoxContent' = logBoxContent
          /\ \E index \in timers :
                \A other \in Indices \ {index} :
                    /\ spinnerIndex'[other] = spinnerIndex[other]
                    /\ sidebarItems'[other] = sidebarItems[other]]_vars

\* C20 witness: task 0 ticked twice and task 1 once; task 1 is selected and the pane
\* still holds its chunk.
C20_Witness ==
    /\ phase = "running"
    /\ N = 2
    /\ Running(0) /\ Running(1)
    /\ spinnerIndex[0] = 2 /\ sidebarItems[0] = "F1 cmd0"
    /\ spinnerIndex[1] = 1 /\ sidebarItems[1] = "F0 cmd1"
    /\ currentTaskIndex = 1
    /\ Len(tasks[1].logs) = 1
    /\ logBoxContent = tasks[1].logs[1]

====
